---- MODULE Spec2Model ----
(***************************************************************************)
(* pm_auto: the peripheral orchestrator (PMAuto), the display pager        *)
(* (OLEDAuto) and the power-supervisor monitor (SPCAuto) of                *)
(* src/pm_auto/pm_auto.py, as one state machine.                           *)
(*                                                                         *)
(* Three next-state relations share the variables:                         *)
(*   Spec      the caller thread (start, stop, update_config) interleaved  *)
(*             with the loop thread, one step per statement of loop();     *)
(*   PagerSpec the ticks of OLEDAuto.run against a moving environment      *)
(*             (wall clock, service backends, address list);               *)
(*   SPCSpec   the ticks of SPCAuto.run against moving supervisor          *)
(*             readings.                                                   *)
(***************************************************************************)
EXTENDS Integers, Sequences, FiniteSets, TLC

(***************************************************************************)
(* Bounds of the model.                                                    *)
(***************************************************************************)
\* the wall clock runs from 0 to MaxTime seconds and then stands still
MaxTime == 27
\* at most MaxDown tracked services are away from their nominal backend state
MaxDown == 1
\* the renders of the system-stats page an observer of the panel notes
MaxShown == 4

(***************************************************************************)
(* Program constants.                                                      *)
(***************************************************************************)
\* OLEDAuto.__init__
ip_show_next_interval == 3
page_switch_interval == 12
services_check_interval == 12
display_on_minutes_per_hour == 3
\* the request codes of the power-supervisor driver, as handle_shutdown uses them
SHUTDOWN_REQUEST_NONE == 0
SHUTDOWN_REQUEST_LOW_POWER == 1
SHUTDOWN_REQUEST_BUTTON == 2
SHUTDOWN_REQUESTS == {SHUTDOWN_REQUEST_LOW_POWER, SHUTDOWN_REQUEST_BUTTON}
\* fan_control.FANS: the capability tags that are fans
FANS == {"gpio_fan", "pwm_fan"}

VARIABLES
  \* ---- PMAuto
  peripherals,       \* self.peripherals: the capability tags given at construction
  pm_is_ready,       \* PMAuto._is_ready
  interval,          \* self.interval
  running,           \* self.running
  loopPc,            \* the loop thread: "none" (self.thread is None), its place in loop(), or "dead"
  stopPc,            \* the caller inside stop(): "idle" or "join" (blocked in thread.join())
  released,          \* the release calls of the stop() in progress or last completed, in order
  lastConfig,        \* <<cfg>> of the last update_config(cfg) call
  wsConfig,          \* <<cfg>> last handed to ws2812.update_config
  fanConfig,         \* <<cfg>> last handed to fan.update_config
  ws_is_ready,       \* self.ws2812.is_ready()
  tickRan,           \* the sub-components whose run() was called in the current tick, in order
  lastCall,          \* the last call of the caller thread and the branch it took
  \* ---- OLEDAuto
  oled_is_ready,     \* OLEDAuto._is_ready (the driver's is_ready())
  temperature_unit,
  rotation,          \* the driver's rotation
  brightness,        \* the driver's contrast percent
  displayEnabled,    \* the driver's is_display_enabled()
  page_index,
  page_switch_timestamp,
  services_check_timestamp,
  ip_index,
  ip_show_next_timestamp,
  services,          \* services[i]: the cached is_healthy of tracked service i
  oledOut,           \* what the last handle_oled did
  \* ---- the environment of the pager
  now,               \* time.time()
  backend,           \* backend[i]: the container / unit state of tracked service i
  ips,               \* get_ips(): the current address list
  shownLog,          \* the address and the time of each system-stats frame an observer noted
  \* ---- SPCAuto
  spc_is_ready,      \* SPCAuto._is_ready
  shutdown_request,  \* self.shutdown_request: the last request code seen
  is_plugged_in,     \* self.is_plugged_in: the last plugged-in reading seen
  spcOut,            \* what the last SPCAuto.run did
  \* ---- the environment of the monitor
  logger,            \* the logger get_logger returned
  spcCaps,           \* self.spc.device.peripherals
  spcCode,           \* read_shutdown_request()
  spcPlugged,        \* read_is_plugged_in()
  batteryPct,        \* read_battery_percentage()
  shutdownPct        \* read_shutdown_battery_pct()

pmVars == <<peripherals, pm_is_ready, interval, running, loopPc, stopPc, released,
            lastConfig, wsConfig, fanConfig, ws_is_ready, tickRan, lastCall>>
oledCfgVars == <<temperature_unit, rotation, brightness, displayEnabled>>
pagerVars == <<page_index, page_switch_timestamp, services_check_timestamp, ip_index,
               ip_show_next_timestamp, services, oledOut>>
oledVars == <<oled_is_ready, oledCfgVars, pagerVars>>
pagerEnv == <<now, backend, ips, shownLog>>
spcVars == <<spc_is_ready, shutdown_request, is_plugged_in, spcOut>>
spcEnv == <<logger, spcCaps, spcCode, spcPlugged, batteryPct, shutdownPct>>
vars == <<pmVars, oledVars, pagerEnv, spcVars, spcEnv>>

(***************************************************************************)
(* SPCAuto                                                                 *)
(***************************************************************************)
\* The loggers get_logger may return: logging.getLogger (the default), with INFO
\* enabled or not, and a caller's logger whose info() takes a level keyword.
Loggers == { [kind |-> "default", info |-> TRUE],
             [kind |-> "default", info |-> FALSE],
             [kind |-> "custom",  info |-> TRUE] }

\* self.log.info(msg, level="INFO"): logging.Logger.info hands its keywords to
\* Logger._log(level, msg, args, ...) when INFO is enabled, and the second value
\* for level is a TypeError.
LogInfoLevelRaises(lg) == lg.kind = "default" /\ lg.info

RequestCodes == {SHUTDOWN_REQUEST_NONE, SHUTDOWN_REQUEST_LOW_POWER, SHUTDOWN_REQUEST_BUTTON}
BatteryLevels == {5, 10, 15}
ShutdownLevels == {10}
CapabilitySets == { {"external_input", "battery"}, {"battery"}, {} }

\* handle_external_input with the battery test at or below the threshold
HandleExternalInputAtOrBelow ==
  IF ~spc_is_ready \/ "external_input" \notin spcCaps \/ "battery" \notin spcCaps
  THEN [is_plugged_in |-> is_plugged_in, calls |-> 0, raised |-> FALSE]
  ELSE IF spcPlugged = FALSE /\ batteryPct <= shutdownPct
       THEN IF LogInfoLevelRaises(logger)
            THEN [is_plugged_in |-> spcPlugged, calls |-> 0, raised |-> TRUE]
            ELSE [is_plugged_in |-> spcPlugged, calls |-> 1, raised |-> FALSE]
       ELSE [is_plugged_in |-> spcPlugged, calls |-> 0, raised |-> FALSE]

\* handle_external_input: the new is_plugged_in, the number of shutdown() calls and
\* whether the handler raised (log_error logs it and returns)
HandleExternalInput ==
  IF ~spc_is_ready \/ "external_input" \notin spcCaps \/ "battery" \notin spcCaps
  THEN [is_plugged_in |-> is_plugged_in, calls |-> 0, raised |-> FALSE]
  ELSE IF spcPlugged = FALSE /\ batteryPct < shutdownPct
       THEN IF LogInfoLevelRaises(logger)
            THEN [is_plugged_in |-> spcPlugged, calls |-> 0, raised |-> TRUE]
            ELSE [is_plugged_in |-> spcPlugged, calls |-> 1, raised |-> FALSE]
       ELSE [is_plugged_in |-> spcPlugged, calls |-> 0, raised |-> FALSE]

\* handle_shutdown with the shutdown call tied to the change of the code, as its log is
HandleShutdownDebounced ==
  IF ~spc_is_ready
  THEN [shutdown_request |-> shutdown_request, changed |-> FALSE, calls |-> 0]
  ELSE [shutdown_request |-> spcCode,
        changed |-> spcCode # shutdown_request,
        calls |-> IF spcCode \in SHUTDOWN_REQUESTS /\ spcCode # shutdown_request
                  THEN 1 ELSE 0]

\* handle_shutdown: the new shutdown_request, whether the code read differs from the
\* last one seen (the transition is logged) and the number of shutdown() calls
HandleShutdown ==
  IF ~spc_is_ready
  THEN [shutdown_request |-> shutdown_request, changed |-> FALSE, calls |-> 0]
  ELSE [shutdown_request |-> spcCode,
        changed |-> spcCode # shutdown_request,
        calls |-> IF spcCode \in SHUTDOWN_REQUESTS THEN 1 ELSE 0]

NoSpcOut == [ran |-> FALSE, code |-> SHUTDOWN_REQUEST_NONE, plugged |-> TRUE, pct |-> 0,
             threshold |-> 0, caps |-> {}, extCalls |-> 0, reqCalls |-> 0,
             changed |-> FALSE, raised |-> FALSE, prevCalls |-> 0]

\* utils.log_error, the decorator of every method: an exception of the wrapped call
\* is logged and the call returns None to its caller, which goes on
log_error_returns == TRUE

\* run() left before handle_shutdown
NoHandleShutdown == [shutdown_request |-> shutdown_request, changed |-> FALSE, calls |-> 0]

\* SPCAuto.run: handle_external_input, then handle_shutdown
SPCAuto_run ==
  LET ext == HandleExternalInput
      req == IF ext.raised /\ ~log_error_returns THEN NoHandleShutdown ELSE HandleShutdown
  IN /\ is_plugged_in' = ext.is_plugged_in
     /\ shutdown_request' = req.shutdown_request
     /\ spcOut' = [ran |-> TRUE, code |-> spcCode, plugged |-> spcPlugged,
                   pct |-> batteryPct, threshold |-> shutdownPct, caps |-> spcCaps,
                   extCalls |-> ext.calls, reqCalls |-> req.calls,
                   changed |-> req.changed, raised |-> ext.raised,
                   prevCalls |-> spcOut.extCalls + spcOut.reqCalls]
     /\ UNCHANGED spc_is_ready

(***************************************************************************)
(* OLEDAuto: the service health probes                                     *)
(***************************************************************************)
\* self.services: the tracked services, each with its backend (OLEDAuto.__init__)
Services == << [label |-> "Home Assistant", docker_name |-> "homeassistant"],
               [label |-> "PiHole", docker_name |-> "pihole"],
               [label |-> "NodeRed", systemd_name |-> "nodered.service"],
               [label |-> "Nginx", systemd_name |-> "nginx.service"] >>
ServiceIds == 1..Len(Services)

\* What containers.get(name) finds: no container (docker.errors.NotFound), or a
\* container with its status and its attrs['State'], which holds a Health entry
\* only when the image defines a health check.
NotFound == [exists |-> FALSE, status |-> "none", State |-> [Status |-> "none"]]
RunningNoHealth == [exists |-> TRUE, status |-> "running", State |-> [Status |-> "running"]]
RunningHealthy == [exists |-> TRUE, status |-> "running",
                   State |-> [Status |-> "running", Health |-> [Status |-> "healthy"]]]
RunningUnhealthy == [exists |-> TRUE, status |-> "running",
                     State |-> [Status |-> "running", Health |-> [Status |-> "unhealthy"]]]
Exited == [exists |-> TRUE, status |-> "exited", State |-> [Status |-> "exited"]]
Containers == {NotFound, RunningNoHealth, RunningHealthy, RunningUnhealthy, Exited}

\* What systemctl is-active does within its 10 s: exit 0, exit non-zero, or no answer
Units == {"active", "inactive", "timeout"}

\* the key check_docker_health looks up in attrs['State']
HealthKey == "Heatlh"

\* check_docker_health: NotFound is False; a KeyError falls back to the status alone
check_docker_health(container) ==
  IF ~container.exists THEN FALSE
  ELSE IF container.status # "running" THEN FALSE
  ELSE IF HealthKey \in DOMAIN container.State
       THEN container.State[HealthKey].Status = "healthy"
       ELSE container.status = "running"

\* check_systemd_health: returncode == 0; TimeoutExpired is caught and is False
check_systemd_health(unit) == unit = "active"

\* update_services_data: every docker service, then every systemd service
update_services_data ==
  [i \in ServiceIds |->
     IF "docker_name" \in DOMAIN Services[i]
     THEN check_docker_health(backend[i])
     ELSE check_systemd_health(backend[i])]

\* all(s.get('is_healthy', True) for s in self.services)
AllHealthy(cache) == \A i \in ServiceIds : cache[i]

Nominal(i) == IF "docker_name" \in DOMAIN Services[i] THEN RunningNoHealth ELSE "active"
BackendStates(i) == IF "docker_name" \in DOMAIN Services[i] THEN Containers ELSE Units
AllNominal == [i \in ServiceIds |-> Nominal(i)]
Down(b) == {i \in ServiceIds : b[i] # Nominal(i)}

(***************************************************************************)
(* OLEDAuto: the pages and handle_oled                                     *)
(***************************************************************************)
\* self.pages = [draw_system_stats, draw_services_status]
pages == <<"draw_system_stats", "draw_services_status">>

IpLists == { <<>>, <<"10.0.0.2">>, <<"10.0.0.2", "192.168.1.5">> }
Minutes == {2, 3}
ClockSteps == {4, 13}

\* the timer test with >= for >
ElapsedAtLeast(timestamp, timeout) == now - timestamp >= timeout

\* time.time() - timestamp > interval
Elapsed(timestamp, timeout) == now - timestamp > timeout

\* draw_system_stats showing the address it has just rotated to
draw_system_stats_shows_next ==
  IF Len(ips) = 0
  THEN [ip_index |-> ip_index, ip_show_next_timestamp |-> ip_show_next_timestamp,
        ip |-> "DISCONNECTED", flushed |-> TRUE, failed |-> FALSE]
  ELSE IF ip_index >= Len(ips)
  THEN [ip_index |-> ip_index, ip_show_next_timestamp |-> ip_show_next_timestamp,
        ip |-> "", flushed |-> FALSE, failed |-> TRUE]
  ELSE IF now - ip_show_next_timestamp > ip_show_next_interval
  THEN [ip_index |-> (ip_index + 1) % Len(ips), ip_show_next_timestamp |-> now,
        ip |-> ips[((ip_index + 1) % Len(ips)) + 1], flushed |-> TRUE, failed |-> FALSE]
  ELSE [ip_index |-> ip_index, ip_show_next_timestamp |-> ip_show_next_timestamp,
        ip |-> ips[ip_index + 1], flushed |-> TRUE, failed |-> FALSE]

\* draw_system_stats: the address shown, the rotation of ip_index, and whether the
\* frame was flushed; ips[self.ip_index] past the end of the list is an IndexError,
\* which log_error logs, and nothing is drawn
draw_system_stats ==
  IF Len(ips) = 0
  THEN [ip_index |-> ip_index, ip_show_next_timestamp |-> ip_show_next_timestamp,
        ip |-> "DISCONNECTED", flushed |-> TRUE, failed |-> FALSE]
  ELSE IF ip_index >= Len(ips)
  THEN [ip_index |-> ip_index, ip_show_next_timestamp |-> ip_show_next_timestamp,
        ip |-> "", flushed |-> FALSE, failed |-> TRUE]
  ELSE IF Elapsed(ip_show_next_timestamp, ip_show_next_interval)
  THEN [ip_index |-> (ip_index + 1) % Len(ips), ip_show_next_timestamp |-> now,
        ip |-> ips[ip_index + 1], flushed |-> TRUE, failed |-> FALSE]
  ELSE [ip_index |-> ip_index, ip_show_next_timestamp |-> ip_show_next_timestamp,
        ip |-> ips[ip_index + 1], flushed |-> TRUE, failed |-> FALSE]

\* draw_services_status without its early return: the cached health is redrawn
draw_services_status_redraws ==
  IF now - services_check_timestamp > services_check_interval
  THEN [services_check_timestamp |-> now, services |-> update_services_data,
        swept |-> TRUE, flushed |-> TRUE]
  ELSE [services_check_timestamp |-> services_check_timestamp, services |-> services,
        swept |-> FALSE, flushed |-> TRUE]

\* draw_services_status with its re-check on every call
draw_services_status_ungated ==
  [services_check_timestamp |-> now, services |-> update_services_data,
   swept |-> TRUE, flushed |-> TRUE]

\* draw_services_status: sweep and redraw when the re-check timer has elapsed,
\* return at once when it has not
draw_services_status ==
  IF Elapsed(services_check_timestamp, services_check_interval)
  THEN [services_check_timestamp |-> now, services |-> update_services_data,
        swept |-> TRUE, flushed |-> TRUE]
  ELSE [services_check_timestamp |-> services_check_timestamp, services |-> services,
        swept |-> FALSE, flushed |-> FALSE]

NoOledOut == [mode |-> "none", minute |-> 0, healthy |-> FALSE, due |-> FALSE,
              page |-> "", cleared |-> FALSE, flushed |-> FALSE, swept |-> FALSE,
              ip |-> "", failed |-> FALSE, lastSweep |-> 0]

\* what every handle_oled records of the state it found
Seen(minute) == [minute |-> minute, healthy |-> AllHealthy(services),
                 due |-> Elapsed(services_check_timestamp, services_check_interval),
                 lastSweep |-> services_check_timestamp]

\* handle_oled, first branch: the display is not ready or not enabled
OledDisabled(minute) ==
  /\ ~oled_is_ready \/ ~displayEnabled
  /\ oledOut' = [NoOledOut EXCEPT !.mode = "disabled", !.minute = minute,
                   !.healthy = Seen(minute).healthy, !.due = Seen(minute).due,
                   !.lastSweep = Seen(minute).lastSweep]
  /\ UNCHANGED <<page_index, page_switch_timestamp, services_check_timestamp,
                 ip_index, ip_show_next_timestamp, services>>

\* the blank branch without its re-check of the services
OledBlankNoSweep(minute) ==
  /\ oled_is_ready /\ displayEnabled
  /\ minute >= display_on_minutes_per_hour /\ AllHealthy(services)
  /\ oledOut' = [NoOledOut EXCEPT !.mode = "blank", !.minute = minute,
                   !.healthy = Seen(minute).healthy, !.due = Seen(minute).due,
                   !.lastSweep = Seen(minute).lastSweep,
                   !.cleared = TRUE]
  /\ UNCHANGED <<page_index, page_switch_timestamp, services_check_timestamp,
                 ip_index, ip_show_next_timestamp, services>>

\* handle_oled, second branch: past the minutes to display and all services healthy
OledBlank(minute) ==
  /\ oled_is_ready /\ displayEnabled
  /\ minute >= display_on_minutes_per_hour /\ AllHealthy(services)
  /\ IF Elapsed(services_check_timestamp, services_check_interval)
     THEN /\ services_check_timestamp' = now
          /\ services' = update_services_data
     ELSE UNCHANGED <<services_check_timestamp, services>>
  /\ oledOut' = [NoOledOut EXCEPT !.mode = "blank", !.minute = minute,
                   !.healthy = Seen(minute).healthy, !.due = Seen(minute).due,
                   !.lastSweep = Seen(minute).lastSweep,
                   !.cleared = TRUE,
                   !.swept = Elapsed(services_check_timestamp, services_check_interval)]
  /\ UNCHANGED <<page_index, page_switch_timestamp, ip_index, ip_show_next_timestamp>>

\* handle_oled, third branch: the current page, and the page switch when its timer
\* has elapsed
OledPaging(minute) ==
  /\ oled_is_ready /\ displayEnabled
  /\ ~(minute >= display_on_minutes_per_hour /\ AllHealthy(services))
  /\ Len(pages) > 0
  /\ LET page == pages[page_index + 1]
         stats == draw_system_stats
         status == draw_services_status
     IN /\ IF Elapsed(page_switch_timestamp, page_switch_interval)
           THEN /\ page_switch_timestamp' = now
                /\ page_index' = (page_index + 1) % Len(pages)
           ELSE UNCHANGED <<page_switch_timestamp, page_index>>
        /\ IF page = "draw_system_stats"
           THEN /\ ip_index' = stats.ip_index
                /\ ip_show_next_timestamp' = stats.ip_show_next_timestamp
                /\ UNCHANGED <<services_check_timestamp, services>>
                /\ oledOut' = [NoOledOut EXCEPT !.mode = "paging", !.minute = minute,
                                 !.healthy = Seen(minute).healthy, !.due = Seen(minute).due,
                                 !.lastSweep = Seen(minute).lastSweep,
                                 !.page = page, !.flushed = stats.flushed,
                                 !.ip = stats.ip, !.failed = stats.failed]
           ELSE /\ services_check_timestamp' = status.services_check_timestamp
                /\ services' = status.services
                /\ UNCHANGED <<ip_index, ip_show_next_timestamp>>
                /\ oledOut' = [NoOledOut EXCEPT !.mode = "paging", !.minute = minute,
                                 !.healthy = Seen(minute).healthy, !.due = Seen(minute).due,
                                 !.lastSweep = Seen(minute).lastSweep,
                                 !.page = page, !.flushed = status.flushed,
                                 !.swept = status.swept]

\* handle_oled at the minute-of-hour time.localtime().tm_min gives
handle_oled(minute) == OledDisabled(minute) \/ OledBlank(minute) \/ OledPaging(minute)

\* OLEDAuto.run
OLEDAuto_run == \E minute \in Minutes : handle_oled(minute)

\* OLEDAuto.set_display_enabled
set_display_enabled(enabled) == displayEnabled' = enabled

\* OLEDAuto.close: clear, display, off
OLEDAuto_close == IF oled_is_ready THEN <<"oled.close">> ELSE <<>>

(***************************************************************************)
(* PMAuto: configuration                                                   *)
(***************************************************************************)
\* configuration values that may or may not be numbers
Num(n) == [type |-> "int", value |-> n]
Txt(s) == [type |-> "str", value |-> 0, text |-> s]
\* isinstance(x, (int, float))
IsNumber(x) == x.type \in {"int", "float"}

DEFAULT_CONFIG == [rgb_led_count |-> 4, rgb_enable |-> TRUE, rgb_color |-> "#ff00ff",
                   rgb_brightness |-> 100, rgb_style |-> "rainbow", rgb_speed |-> 0,
                   oled_rotation |-> 0, temperature_unit |-> "C", gpio_fan_mode |-> 1,
                   interval |-> Num(1), oled_enable |-> TRUE, oled_brightness |-> 100]

\* the partial configurations update_config is called with: a valid one, one with
\* an invalid unit and one with an invalid interval among valid fields, and intervals
Configs == { [temperature_unit |-> "F", oled_enable |-> TRUE, oled_rotation |-> 180,
              oled_brightness |-> 50, interval |-> Num(2), rgb_color |-> "#00ff00"],
             [temperature_unit |-> "K", oled_enable |-> FALSE, oled_rotation |-> 90,
              oled_brightness |-> 10, interval |-> Num(3), rgb_color |-> "#0000ff"],
             [interval |-> Txt("fast"), oled_enable |-> FALSE, rgb_color |-> "#ff0000"],
             [oled_enable |-> FALSE],
             [interval |-> Num(0)],
             [interval |-> Num(-1)] }
Has(config, key) == key \in DOMAIN config

\* the two early returns of update_config
UnitRejected(config) ==
  Has(config, "temperature_unit") /\ config.temperature_unit \notin {"C", "F"}
IntervalRejected(config) ==
  Has(config, "interval") /\ ~IsNumber(config.interval)

\* how far update_config gets: the oled fields and the interval are reached unless
\* the unit was rejected, the pass-through unless either was
ReachesFields(config) == ~UnitRejected(config)
ReachesPassThrough(config) == ~UnitRejected(config) /\ ~IntervalRejected(config)

oledPresent == "oled" \in peripherals
ws2812Present == "ws2812" \in peripherals
\* has_common_items(FANS, peripherals) or 'spc' in peripherals
fanPresent == (FANS \cap peripherals # {}) \/ "spc" \in peripherals
spcPresent == "spc" \in peripherals

\* PMAuto.update_config
update_config(config) ==
  /\ lastConfig' = <<config>>
  /\ temperature_unit' =
       IF ReachesFields(config) /\ Has(config, "temperature_unit") /\ oledPresent
       THEN config.temperature_unit ELSE temperature_unit
  /\ rotation' =
       IF ReachesFields(config) /\ Has(config, "oled_rotation") /\ oledPresent
       THEN config.oled_rotation ELSE rotation
  /\ displayEnabled' =
       IF ReachesFields(config) /\ Has(config, "oled_enable") /\ oledPresent
       THEN config.oled_enable ELSE displayEnabled
  /\ brightness' =
       IF ReachesFields(config) /\ Has(config, "oled_brightness") /\ oledPresent
       THEN config.oled_brightness ELSE brightness
  /\ interval' =
       IF ReachesFields(config) /\ Has(config, "interval") /\ IsNumber(config.interval)
       THEN config.interval.value ELSE interval
  /\ wsConfig' =
       IF ReachesPassThrough(config) /\ ws2812Present THEN <<config>> ELSE wsConfig
  /\ fanConfig' =
       IF ReachesPassThrough(config) /\ "gpio_fan" \in peripherals
       THEN <<config>> ELSE fanConfig

(***************************************************************************)
(* PMAuto: construction                                                    *)
(***************************************************************************)
PeripheralSets == { {"oled"}, {"ws2812", "gpio_fan"}, {"spc"},
                    {"oled", "ws2812", "gpio_fan", "spc"} }

\* PMAuto.__init__(DEFAULT_CONFIG, p): the sub-components, then update_config(config);
\* oledOk, wsOk and spcOk are whether each driver answered
Constructed(p, oledOk, wsOk, spcOk) ==
  /\ peripherals = p
  /\ pm_is_ready = FALSE
  /\ interval = DEFAULT_CONFIG.interval.value
  /\ running = FALSE
  /\ loopPc = "none"
  /\ stopPc = "idle"
  /\ released = <<>>
  /\ lastConfig = <<DEFAULT_CONFIG>>
  /\ wsConfig = IF "ws2812" \in p THEN <<DEFAULT_CONFIG>> ELSE <<>>
  /\ fanConfig = IF "gpio_fan" \in p THEN <<DEFAULT_CONFIG>> ELSE <<>>
  /\ ws_is_ready = ("ws2812" \in p /\ wsOk)
  /\ tickRan = <<>>
  /\ lastCall = "none"
  /\ oled_is_ready = ("oled" \in p /\ oledOk)
  /\ temperature_unit = DEFAULT_CONFIG.temperature_unit
  /\ rotation = DEFAULT_CONFIG.oled_rotation
  /\ brightness = DEFAULT_CONFIG.oled_brightness
  /\ displayEnabled = DEFAULT_CONFIG.oled_enable
  /\ page_index = 0
  /\ page_switch_timestamp = 0
  /\ services_check_timestamp = 0
  /\ ip_index = 0
  /\ ip_show_next_timestamp = 0
  /\ services = [i \in ServiceIds |-> FALSE]
  /\ oledOut = NoOledOut
  /\ spc_is_ready = ("spc" \in p /\ spcOk)
  /\ shutdown_request = 0
  /\ is_plugged_in = FALSE
  /\ spcOut = NoSpcOut

(***************************************************************************)
(* PMAuto: start, stop and the loop thread                                 *)
(***************************************************************************)
\* is_ready()
is_ready == pm_is_ready

\* thread.is_alive()
ThreadAlive == loopPc \in {"top", "oled", "fan", "spc", "sleep"}

\* start(): a warning when already running, else the loop thread
Start ==
  /\ stopPc = "idle"
  /\ IF running
     THEN /\ UNCHANGED <<running, loopPc>>
          /\ lastCall' = "start_already_running"
     ELSE /\ running' = TRUE
          /\ loopPc' = "top"
          /\ lastCall' = "start"
  /\ UNCHANGED <<peripherals, pm_is_ready, interval, stopPc, released, lastConfig,
                 wsConfig, fanConfig, ws_is_ready, tickRan>>
  /\ UNCHANGED <<oledVars, pagerEnv, spcVars, spcEnv>>

\* the release calls with the fan closed first
ReleasesFanFirst ==
  (IF fanPresent THEN <<"fan.close">> ELSE <<>>)
  \o (IF oledPresent /\ oled_is_ready THEN OLEDAuto_close ELSE <<>>)
  \o (IF ws2812Present /\ ws_is_ready THEN <<"ws2812.stop">> ELSE <<>>)

\* the release calls of stop(), in its order: oled.close(), ws2812.stop(), fan.close()
Releases ==
  (IF oledPresent /\ oled_is_ready THEN OLEDAuto_close ELSE <<>>)
  \o (IF ws2812Present /\ ws_is_ready THEN <<"ws2812.stop">> ELSE <<>>)
  \o (IF fanPresent THEN <<"fan.close">> ELSE <<>>)

\* what stop() does once it is past the join
StopTail ==
  /\ running' = FALSE
  /\ released' = Releases
  /\ stopPc' = "idle"

\* stop() that sets running to False and releases without joining the loop thread
StopCallNoJoin ==
  /\ stopPc = "idle"
  /\ StopTail
  /\ lastCall' = (IF running THEN "stop_join" ELSE "stop")
  /\ UNCHANGED <<peripherals, pm_is_ready, interval, loopPc, lastConfig,
                 wsConfig, fanConfig, ws_is_ready, tickRan>>
  /\ UNCHANGED <<oledVars, pagerEnv, spcVars, spcEnv>>

\* stop() up to thread.join(): it joins when running, else goes straight on
StopCall ==
  /\ stopPc = "idle"
  /\ IF running
     THEN /\ stopPc' = "join"
          /\ released' = <<>>
          /\ lastCall' = "stop_join"
          /\ UNCHANGED running
     ELSE /\ StopTail
          /\ lastCall' = "stop"
  /\ UNCHANGED <<peripherals, pm_is_ready, interval, loopPc, lastConfig,
                 wsConfig, fanConfig, ws_is_ready, tickRan>>
  /\ UNCHANGED <<oledVars, pagerEnv, spcVars, spcEnv>>

\* a join that returns while the loop thread is still alive
StopJoinEarly ==
  /\ stopPc = "join"
  /\ StopTail
  /\ UNCHANGED <<peripherals, pm_is_ready, interval, loopPc, lastConfig,
                 wsConfig, fanConfig, ws_is_ready, tickRan, lastCall>>
  /\ UNCHANGED <<oledVars, pagerEnv, spcVars, spcEnv>>

\* thread.join() returns when the loop thread has ended; stop() then goes on
StopJoin ==
  /\ stopPc = "join"
  /\ ~ThreadAlive
  /\ StopTail
  /\ UNCHANGED <<peripherals, pm_is_ready, interval, loopPc, lastConfig,
                 wsConfig, fanConfig, ws_is_ready, tickRan, lastCall>>
  /\ UNCHANGED <<oledVars, pagerEnv, spcVars, spcEnv>>

\* update_config(config) from the caller thread
UpdateConfig ==
  /\ stopPc = "idle"
  /\ \E config \in Configs : update_config(config)
  /\ lastCall' = "update_config"
  /\ UNCHANGED <<peripherals, pm_is_ready, running, loopPc, stopPc, released,
                 ws_is_ready, tickRan>>
  /\ UNCHANGED <<oled_is_ready, pagerVars, pagerEnv, spcVars, spcEnv>>

\* loop(): while self.running
LoopTop ==
  /\ loopPc = "top"
  /\ IF running
     THEN loopPc' = "oled" /\ tickRan' = <<>>
     ELSE loopPc' = "dead" /\ UNCHANGED tickRan
  /\ UNCHANGED <<peripherals, pm_is_ready, interval, running, stopPc, released,
                 lastConfig, wsConfig, fanConfig, ws_is_ready, lastCall>>
  /\ UNCHANGED <<oledVars, pagerEnv, spcVars, spcEnv>>

\* loop(): if self.oled is not None and self.oled.is_ready(): self.oled.run()
LoopOled ==
  /\ loopPc = "oled"
  /\ loopPc' = "fan"
  /\ IF oledPresent /\ oled_is_ready
     THEN OLEDAuto_run /\ tickRan' = Append(tickRan, "oled")
     ELSE UNCHANGED <<pagerVars, tickRan>>
  /\ UNCHANGED <<peripherals, pm_is_ready, interval, running, stopPc, released,
                 lastConfig, wsConfig, fanConfig, ws_is_ready, lastCall>>
  /\ UNCHANGED <<oled_is_ready, oledCfgVars, pagerEnv, spcVars, spcEnv>>

\* loop(): if self.fan is not None: self.fan.run()
LoopFan ==
  /\ loopPc = "fan"
  /\ loopPc' = "spc"
  /\ tickRan' = IF fanPresent THEN Append(tickRan, "fan") ELSE tickRan
  /\ UNCHANGED <<peripherals, pm_is_ready, interval, running, stopPc, released,
                 lastConfig, wsConfig, fanConfig, ws_is_ready, lastCall>>
  /\ UNCHANGED <<oledVars, pagerEnv, spcVars, spcEnv>>

\* loop(): if self.spc is not None and self.spc.is_ready(): self.spc.run()
LoopSpc ==
  /\ loopPc = "spc"
  /\ loopPc' = "sleep"
  /\ IF spcPresent /\ spc_is_ready
     THEN SPCAuto_run /\ tickRan' = Append(tickRan, "spc")
     ELSE UNCHANGED <<spcVars, tickRan>>
  /\ UNCHANGED <<peripherals, pm_is_ready, interval, running, stopPc, released,
                 lastConfig, wsConfig, fanConfig, ws_is_ready, lastCall>>
  /\ UNCHANGED <<oledVars, pagerEnv, spcEnv>>

\* time.sleep(secs) raises ValueError for a negative length
SleepRaises(secs) == secs < 0

\* loop(): time.sleep(self.interval); an error leaves loop() through log_error and
\* the thread ends
LoopSleep ==
  /\ loopPc = "sleep"
  /\ loopPc' = IF SleepRaises(interval) THEN "dead" ELSE "top"
  /\ UNCHANGED <<peripherals, pm_is_ready, interval, running, stopPc, released,
                 lastConfig, wsConfig, fanConfig, ws_is_ready, tickRan, lastCall>>
  /\ UNCHANGED <<oledVars, pagerEnv, spcVars, spcEnv>>

(***************************************************************************)
(* The environments                                                        *)
(***************************************************************************)
\* the environment a specification holds still
StillPagerEnv ==
  /\ now = 13
  /\ backend = AllNominal
  /\ ips = <<"10.0.0.2", "192.168.1.5">>
  /\ shownLog = <<>>

StillSpcEnv ==
  /\ logger = [kind |-> "default", info |-> TRUE]
  /\ spcCaps = {"external_input", "battery"}
  /\ spcCode = SHUTDOWN_REQUEST_LOW_POWER
  /\ spcPlugged = FALSE
  /\ batteryPct = 5
  /\ shutdownPct = 10

\* the wall clock moves on
ClockAdvance ==
  /\ \E d \in ClockSteps : now + d <= MaxTime /\ now' = now + d
  /\ UNCHANGED <<backend, ips, shownLog>>
  /\ UNCHANGED <<pmVars, oledVars, spcVars, spcEnv>>

\* a tracked service's container or unit changes state
Varying == {1, 3}
BackendChange ==
  /\ \E i \in Varying : \E st \in BackendStates(i) :
       /\ st # backend[i]
       /\ Cardinality(Down([backend EXCEPT ![i] = st])) <= MaxDown
       /\ backend' = [backend EXCEPT ![i] = st]
  /\ UNCHANGED <<now, ips, shownLog>>
  /\ UNCHANGED <<pmVars, oledVars, spcVars, spcEnv>>

\* the address list changes
IpsChange ==
  /\ \E l \in IpLists : l # ips /\ ips' = l
  /\ UNCHANGED <<now, backend, shownLog>>
  /\ UNCHANGED <<pmVars, oledVars, spcVars, spcEnv>>

\* the supervisor's readings change
SpcReadings ==
  /\ \E c \in RequestCodes, p \in BOOLEAN, b \in BatteryLevels :
       /\ <<c, p, b>> # <<spcCode, spcPlugged, batteryPct>>
       /\ spcCode' = c /\ spcPlugged' = p /\ batteryPct' = b
  /\ UNCHANGED <<logger, spcCaps, shutdownPct>>
  /\ UNCHANGED <<pmVars, oledVars, pagerEnv, spcVars>>

(***************************************************************************)
(* Spec: the caller thread and the loop thread                             *)
(***************************************************************************)
\* which drivers answered at construction: all, or all but one
DriverOutcomes == { <<TRUE, TRUE, TRUE>>, <<FALSE, TRUE, TRUE>>,
                    <<TRUE, FALSE, TRUE>>, <<TRUE, TRUE, FALSE>> }

Init ==
  /\ \E p \in PeripheralSets : \E ok \in DriverOutcomes :
       Constructed(p, ok[1], ok[2], ok[3])
  /\ StillPagerEnv
  /\ StillSpcEnv

Next ==
  \/ Start
  \/ StopCall
  \/ StopJoin
  \/ UpdateConfig
  \/ LoopTop
  \/ LoopOled
  \/ LoopFan
  \/ LoopSpc
  \/ LoopSleep

Spec == Init /\ [][Next]_vars

\* the loop thread is scheduled, and so is a stop() whose join can return
FairSpec ==
  /\ Spec
  /\ WF_vars(LoopTop) /\ WF_vars(LoopOled) /\ WF_vars(LoopFan)
  /\ WF_vars(LoopSpc) /\ WF_vars(LoopSleep) /\ WF_vars(StopJoin)

(***************************************************************************)
(* PagerSpec: the ticks of the display against its environment             *)
(***************************************************************************)
\* one tick of loop() for the display: run() when present and ready
OledTick ==
  /\ IF oledPresent /\ oled_is_ready
     THEN OLEDAuto_run
     ELSE UNCHANGED pagerVars
  /\ UNCHANGED <<oled_is_ready, oledCfgVars, pagerEnv>>
  /\ UNCHANGED <<pmVars, spcVars, spcEnv>>

\* update_config({'oled_enable': enabled}) reaching OLEDAuto.set_display_enabled
SetDisplayEnabled ==
  /\ oledPresent
  /\ \E enabled \in BOOLEAN : enabled # displayEnabled /\ set_display_enabled(enabled)
  /\ UNCHANGED <<oled_is_ready, temperature_unit, rotation, brightness, pagerVars, pagerEnv>>
  /\ UNCHANGED <<pmVars, spcVars, spcEnv>>

PagerInit ==
  /\ \E oledOk \in BOOLEAN : Constructed({"oled"}, oledOk, TRUE, TRUE)
  /\ now = 0
  /\ backend = AllNominal
  /\ ips \in IpLists
  /\ shownLog = <<>>
  /\ StillSpcEnv

PagerNext ==
  \/ OledTick
  \/ SetDisplayEnabled
  \/ ClockAdvance
  \/ BackendChange
  \/ IpsChange

PagerSpec == PagerInit /\ [][PagerNext]_vars

\* a tick of the display in the quiet part of the hour
QuietTick == OledTick /\ oledOut'.minute >= display_on_minutes_per_hour

\* the loop keeps ticking through the quiet part of the hour
FairPagerSpec ==
  /\ PagerSpec
  /\ WF_vars(QuietTick)

(***************************************************************************)
(* RotationSpec: the ticks of the display against a fixed address list,    *)
(* with the frames of the system-stats page noted                          *)
(***************************************************************************)
\* one tick of loop() for the display, the frame of the system-stats page noted
\* with the time it was flushed
RenderTick ==
  /\ IF oledPresent /\ oled_is_ready
     THEN /\ OLEDAuto_run
          /\ shownLog' = IF /\ oledOut'.page = "draw_system_stats" /\ oledOut'.flushed
                            /\ Len(shownLog) < MaxShown
                         THEN Append(shownLog, [ip |-> oledOut'.ip, at |-> now])
                         ELSE shownLog
     ELSE UNCHANGED <<pagerVars, shownLog>>
  /\ UNCHANGED <<oled_is_ready, oledCfgVars, now, backend, ips>>
  /\ UNCHANGED <<pmVars, spcVars, spcEnv>>

RotationInit ==
  /\ Constructed({"oled"}, TRUE, TRUE, TRUE)
  /\ now = 0
  /\ backend = AllNominal
  /\ ips \in IpLists
  /\ shownLog = <<>>
  /\ StillSpcEnv

RotationNext ==
  \/ RenderTick
  \/ ClockAdvance

RotationSpec == RotationInit /\ [][RotationNext]_vars

(***************************************************************************)
(* SPCSpec: the ticks of the monitor against the supervisor's readings     *)
(***************************************************************************)
\* one tick of loop() for the monitor: run() when present and ready
SpcTick ==
  /\ IF spcPresent /\ spc_is_ready
     THEN SPCAuto_run
     ELSE UNCHANGED spcVars
  /\ UNCHANGED spcEnv
  /\ UNCHANGED <<pmVars, oledVars, pagerEnv>>

SPCInit ==
  /\ \E spcOk \in BOOLEAN : Constructed({"spc"}, TRUE, TRUE, spcOk)
  /\ StillPagerEnv
  /\ logger \in Loggers
  /\ spcCaps \in CapabilitySets
  /\ spcCode \in RequestCodes
  /\ spcPlugged \in BOOLEAN
  /\ batteryPct \in BatteryLevels
  /\ shutdownPct \in ShutdownLevels

SPCNext ==
  \/ SpcTick
  \/ SpcReadings

SPCSpec == SPCInit /\ [][SPCNext]_vars

(***************************************************************************)
(* The claims                                                              *)
(***************************************************************************)
\* the ticks of handle_oled on a ready and enabled display
Drawing == oledOut.mode \in {"blank", "paging"}
\* the sub-components loop() runs in a tick, in its order
Active ==
  (IF oledPresent /\ oled_is_ready THEN <<"oled">> ELSE <<>>)
  \o (IF fanPresent THEN <<"fan">> ELSE <<>>)
  \o (IF spcPresent /\ spc_is_ready THEN <<"spc">> ELSE <<>>)

\* C1: a stop() that found the loop running, and so waits for the loop thread,
\* eventually returns.
C1_StopReturns == (stopPc = "join") ~> (stopPc = "idle")

\* C2: every valid field of the last update_config call is applied, whatever other
\* field of that call was invalid: the unit, the rotation, the display switch and the
\* brightness on a present display, a numeric interval, and the pass-through to the
\* lighting and to the fan when those peripherals are active.
C2_ValidFieldsApplied ==
  LET config == lastConfig[1]
  IN /\ (Has(config, "temperature_unit") /\ oledPresent
           /\ config.temperature_unit \in {"C", "F"})
          => temperature_unit = config.temperature_unit
     /\ (Has(config, "oled_rotation") /\ oledPresent) => rotation = config.oled_rotation
     /\ (Has(config, "oled_enable") /\ oledPresent) => displayEnabled = config.oled_enable
     /\ (Has(config, "oled_brightness") /\ oledPresent)
          => brightness = config.oled_brightness
     /\ (Has(config, "interval") /\ IsNumber(config.interval))
          => interval = config.interval.value
     /\ ws2812Present => wsConfig = <<config>>
     /\ "gpio_fan" \in peripherals => fanConfig = <<config>>

\* C3, as claimed: a tick invokes shutdown at most once, and a tick that reads the
\* request code of the tick before it, after that tick invoked shutdown, invokes
\* nothing.
C3_ShutdownOncePerOccurrence ==
  spcOut.ran =>
    /\ spcOut.extCalls + spcOut.reqCalls <= 1
    /\ (spcOut.prevCalls > 0 /\ ~spcOut.changed)
         => spcOut.extCalls + spcOut.reqCalls = 0

\* C3, amended: the shutdown call is not debounced. On every tick of a ready monitor
\* handle_shutdown invokes shutdown exactly once when the request code read is a
\* recognized one, and not otherwise, whether or not the code changed since the tick
\* before and whatever handle_external_input did in the same tick; the code read is
\* the one remembered.
C3_ShutdownEveryQualifyingTick ==
  spcOut.ran =>
    /\ spcOut.reqCalls = (IF spcOut.code \in SHUTDOWN_REQUESTS THEN 1 ELSE 0)
    /\ shutdown_request = spcOut.code

\* C3: a tick that reads the same recognized code as the tick before it, which had
\* invoked shutdown, and in which both checks invoke shutdown.
C3_Witness ==
  /\ spcOut.ran /\ ~spcOut.changed /\ spcOut.prevCalls > 0
  /\ spcOut.code \in SHUTDOWN_REQUESTS
  /\ spcOut.reqCalls = 1 /\ spcOut.extCalls = 1

\* C4: with the default logger, a tick of a ready monitor that advertises external
\* input and battery, reads unplugged and reads a battery percentage below the
\* threshold invokes shutdown from the external-input check.
C4_LowBatteryShutsDown ==
  (/\ spcOut.ran /\ logger.kind = "default"
   /\ {"external_input", "battery"} \subseteq spcOut.caps
   /\ ~spcOut.plugged /\ spcOut.pct < spcOut.threshold)
    => spcOut.extCalls = 1

\* C5: after construction is_ready() is true.
C5_ReadyAfterConstruction == is_ready

\* C6: the page index is 0 as long as the clock stands at 0, and 1 once the switch
\* timer fired at 13; whenever the switch timer fires, more than
\* page_switch_interval seconds have passed since it last did and the page index
\* moves by exactly one, modulo the page count; it moves at no other time.
C6_PageAdvancesOnce ==
  /\ [](now = 0 => page_index = 0)
  /\ [](page_switch_timestamp = 13 => page_index = 1)
  /\ [][ (page_switch_timestamp' # page_switch_timestamp \/ page_index' # page_index)
           => /\ now - page_switch_timestamp > page_switch_interval
              /\ page_switch_timestamp' = now
              /\ page_index' = (page_index + 1) % Len(pages) ]_vars

\* C6: ticks at 0 and at 13 have happened and the page index is 1.
C6_Witness ==
  /\ now = 13 /\ page_switch_timestamp = 13 /\ page_index = 1
  /\ oledOut.mode = "paging"

\* C7, as claimed: a tick of a ready and enabled display, at or past the minute
\* threshold with a service cached unhealthy, whose page render did not raise, has
\* flushed a page.
C7_UnhealthyAlwaysRenders ==
  (/\ Drawing /\ oledOut.minute >= display_on_minutes_per_hour
   /\ ~oledOut.healthy /\ ~oledOut.failed)
    => oledOut.flushed

\* C7, amended: such a tick is an active-paging tick and calls the current page. The
\* system-stats page flushes a frame unless its address lookup raised; the
\* service-status page flushes a frame exactly when the re-check timer had elapsed,
\* and returns without drawing when it had not.
C7_UnhealthyCallsPage ==
  (/\ Drawing /\ oledOut.minute >= display_on_minutes_per_hour /\ ~oledOut.healthy)
    => /\ oledOut.mode = "paging"
       /\ ~oledOut.cleared
       /\ oledOut.page \in {"draw_system_stats", "draw_services_status"}
       /\ oledOut.page = "draw_system_stats" => (oledOut.flushed <=> ~oledOut.failed)
       /\ oledOut.page = "draw_services_status" => (oledOut.flushed <=> oledOut.due)

\* C7: the service-status page called past the threshold with a service cached
\* unhealthy and the re-check timer not elapsed: nothing is drawn.
C7_Witness ==
  /\ oledOut.mode = "paging" /\ oledOut.minute >= display_on_minutes_per_hour
  /\ ~oledOut.healthy /\ oledOut.page = "draw_services_status"
  /\ ~oledOut.due /\ ~oledOut.flushed

\* C8: a tick of a ready and enabled display at or past the minute threshold with
\* every service cached healthy is a blank tick: the display is cleared, no page is
\* called or flushed, the sweep has run exactly when the re-check timer had elapsed
\* (and then restarts that timer), and the page index and the page-switch timer are
\* as they were.
C8_QuietBlank ==
  /\ []( (Drawing /\ oledOut.minute >= display_on_minutes_per_hour /\ oledOut.healthy)
           => /\ oledOut.mode = "blank"
              /\ oledOut.cleared /\ ~oledOut.flushed /\ oledOut.page = ""
              /\ oledOut.swept <=> oledOut.due )
  /\ [][ oledOut'.mode = "blank"
           => /\ page_index' = page_index
              /\ page_switch_timestamp' = page_switch_timestamp
              /\ (services_check_timestamp' # services_check_timestamp \/ services' # services)
                   => /\ oledOut'.swept
                      /\ now - services_check_timestamp > services_check_interval
                      /\ services_check_timestamp' = now
                      /\ services' = update_services_data ]_vars

\* C8: a blank tick past the threshold whose sweep has run.
C8_Witness ==
  /\ oledOut.mode = "blank" /\ oledOut.minute >= display_on_minutes_per_hour
  /\ oledOut.healthy /\ oledOut.due /\ oledOut.swept /\ oledOut.cleared
  /\ services_check_timestamp = now

\* C9: a tick that finds the display disabled with the re-check timer elapsed
\* refreshes the cached health of the services.
C9_DisabledRefreshesHealth ==
  (oledOut.mode = "disabled" /\ oledOut.due) => oledOut.swept

\* C10: the loop thread is alive as long as running is true, and every active
\* sub-component has run when the tick reaches its sleep.
C10_TickErrorsContained ==
  /\ running => ThreadAlive
  /\ loopPc = "sleep" => tickRan = Active

\* C11: every timer-gated action fires only when more than its interval has passed
\* since it last fired, and restarts its timer at the time it fires: the page switch,
\* the rotation of the address and the health sweep, whichever branch the sweep is
\* called from. No timer is ever set ahead of the clock.
C11_TimersGated ==
  /\ [](/\ page_switch_timestamp <= now
        /\ ip_show_next_timestamp <= now
        /\ services_check_timestamp <= now)
  /\ [](oledOut.swept => /\ oledOut.lastSweep + services_check_interval < services_check_timestamp
                         /\ oledOut.mode \in {"blank", "paging"})
  /\ [][ /\ page_switch_timestamp' # page_switch_timestamp
             => /\ now - page_switch_timestamp > page_switch_interval
                /\ page_switch_timestamp' = now
         /\ page_index' # page_index => page_switch_timestamp' # page_switch_timestamp
         /\ ip_show_next_timestamp' # ip_show_next_timestamp
             => /\ now - ip_show_next_timestamp > ip_show_next_interval
                /\ ip_show_next_timestamp' = now
         /\ ip_index' # ip_index => ip_show_next_timestamp' # ip_show_next_timestamp
         /\ services_check_timestamp' # services_check_timestamp
             => /\ now - services_check_timestamp > services_check_interval
                /\ services_check_timestamp' = now
         /\ services' # services => services_check_timestamp' # services_check_timestamp
       ]_vars

\* C11: a sweep at 13 and the next sweep, from the service-status page, at 26,
\* thirteen seconds later.
C11_Witness ==
  /\ oledOut.mode = "paging" /\ oledOut.page = "draw_services_status"
  /\ oledOut.swept /\ oledOut.lastSweep = 13 /\ services_check_timestamp = 26

\* the peripherals stop() has to release: the display, the lighting, the fan
InOrder ==
  (IF "oled" \in peripherals /\ oled_is_ready THEN <<"oled.close">> ELSE <<>>)
  \o (IF "ws2812" \in peripherals /\ ws_is_ready THEN <<"ws2812.stop">> ELSE <<>>)
  \o (IF (FANS \cap peripherals # {}) \/ "spc" \in peripherals
      THEN <<"fan.close">> ELSE <<>>)

\* C12: a stop() that finds the loop not running does not wait for any thread: it
\* returns at once with running false, having released the display if present and
\* ready, then the lighting if present and ready, then the fan if present, each once.
C12_StopWithoutStart ==
  /\ [](lastCall = "stop" => /\ stopPc = "idle" /\ ~running /\ released = InOrder)
  /\ [][ (StopCall /\ ~running)
           => /\ stopPc' = "idle" /\ ~running' /\ released' = InOrder
              /\ loopPc' = loopPc ]_vars

\* C12: stop() on an orchestrator that was never started, with a ready display, a
\* ready lighting strip and a fan: the three are released in that order.
C12_Witness ==
  /\ lastCall = "stop" /\ loopPc = "none" /\ ~running /\ stopPc = "idle"
  /\ released = <<"oled.close", "ws2812.stop", "fan.close">>

\* C13: a start() that finds the loop running changes nothing; a start() creates
\* the loop thread only when no loop thread is alive, so there is never more than
\* one: a live loop thread always has running true.
C13_StartIdempotent ==
  /\ [](ThreadAlive => running)
  /\ [](lastCall = "start_already_running" => running)
  /\ [][ Start => IF running
                  THEN UNCHANGED <<running, loopPc, stopPc, released, interval, tickRan,
                                   oledVars, spcVars>>
                  ELSE ~ThreadAlive /\ running' /\ loopPc' = "top" ]_vars

\* C13: a second start() has been made while the loop thread of the first is alive.
C13_Witness ==
  /\ lastCall = "start_already_running" /\ running /\ ThreadAlive

\* C14: the tick interval is a positive number.
C14_IntervalPositive == interval > 0

\* C18: stop() releases nothing while the loop thread is alive and does not set
\* running to false under it; a tick, once started, goes through the display, the
\* fan and the monitor in order; the loop thread ends only at the top of the loop,
\* on finding running false, or in its sleep, which raised.
C18_NoReleaseMidTick ==
  /\ [](stopPc = "join" => released = <<>>)
  /\ [](ThreadAlive => released = <<>> \/ stopPc = "idle")
  /\ [][ ((released' # released /\ released' # <<>>) \/ (running /\ ~running'))
           => ~ThreadAlive ]_vars
  /\ [][ /\ loopPc = "oled" => loopPc' \in {"oled", "fan"}
         /\ loopPc = "fan" => loopPc' \in {"fan", "spc"}
         /\ loopPc = "spc" => loopPc' \in {"spc", "sleep"}
         /\ (loopPc' = "dead" /\ loopPc # "dead")
              => \/ loopPc = "top" /\ ~running
                 \/ loopPc = "sleep" /\ SleepRaises(interval) ]_vars

\* C18: stop() has been called while the loop thread is inside a tick: it waits in
\* its join and has released nothing.
C18_Witness ==
  /\ stopPc = "join" /\ lastCall = "stop_join"
  /\ loopPc \in {"oled", "fan", "spc"} /\ released = <<>>

\* C15: for every container service, the container-runtime check of the state its
\* backend is in answers healthy exactly when the container exists, its status is
\* running and, if its state has a Health entry, that entry reports healthy.
C15_DockerHealthIff ==
  \A i \in ServiceIds :
    "docker_name" \in DOMAIN Services[i] =>
      LET container == backend[i]
      IN check_docker_health(container)
           <=> /\ container.exists
               /\ container.status = "running"
               /\ "Health" \in DOMAIN container.State
                    => container.State.Health.Status = "healthy"

\* C17: no tick invokes shutdown unless the monitor is present and ready; the
\* request check invokes it only for a recognized request code, the external-input
\* check only when the supervisor advertises external input and battery, reads
\* unplugged and reads a battery percentage strictly below the threshold; a tick that
\* reads plugged in and an unrecognized code invokes nothing.
C17_NoSpuriousShutdown ==
  /\ ~spcOut.ran => spcOut.extCalls = 0 /\ spcOut.reqCalls = 0
  /\ spcOut.ran => spcPresent /\ spc_is_ready
  /\ spcOut.reqCalls > 0 => spcOut.code \in SHUTDOWN_REQUESTS
  /\ spcOut.extCalls > 0 =>
       /\ {"external_input", "battery"} \subseteq spcOut.caps
       /\ ~spcOut.plugged
       /\ spcOut.pct < spcOut.threshold
  /\ (spcOut.plugged /\ spcOut.code \notin SHUTDOWN_REQUESTS)
       => spcOut.extCalls + spcOut.reqCalls = 0

\* C17: a tick that read no request, unplugged and a battery below the threshold:
\* the external-input check alone invoked shutdown.
C17_Witness ==
  /\ spcOut.ran /\ spcOut.code = SHUTDOWN_REQUEST_NONE
  /\ ~spcOut.plugged /\ spcOut.pct < spcOut.threshold
  /\ spcOut.extCalls = 1 /\ spcOut.reqCalls = 0

\* C20: no render of the system-stats page fails on the lookup of the address.
C20_IpIndexValid == ~oledOut.failed

\* the noted frames are apart by more than the rotation interval, the first of them
\* more than the interval after the zero the timers start from
Spaced ==
  \A k \in 1..Len(shownLog) :
    shownLog[k].at - (IF k = 1 THEN 0 ELSE shownLog[k - 1].at) > ip_show_next_interval

\* C16: with an empty address list every frame of the system-stats page shows
\* DISCONNECTED; with a fixed list of addresses, frames that are more than the
\* rotation interval apart show the addresses in list order, starting with the
\* first and wrapping around.
C16_AddressesAlternate ==
  /\ Len(ips) = 0 => \A k \in 1..Len(shownLog) : shownLog[k].ip = "DISCONNECTED"
  /\ (Len(ips) > 0 /\ Spaced)
       => \A k \in 1..Len(shownLog) : shownLog[k].ip = ips[((k - 1) % Len(ips)) + 1]

\* C16: four frames, each more than the rotation interval after the one before,
\* have shown the two addresses alternately.
C16_Witness ==
  /\ ips = <<"10.0.0.2", "192.168.1.5">> /\ Spaced /\ Len(shownLog) = 4
  /\ shownLog[1].ip = "10.0.0.2" /\ shownLog[2].ip = "192.168.1.5"
  /\ shownLog[3].ip = "10.0.0.2" /\ shownLog[4].ip = "192.168.1.5"

\* a tracked service is unhealthy at its backend: its container is missing, is not
\* running or reports unhealthy, or its unit is not active
UnhealthyAtBackend(i) ==
  IF "docker_name" \in DOMAIN Services[i]
  THEN backend[i] \in {NotFound, Exited, RunningUnhealthy}
  ELSE backend[i] # "active"

\* C19: when the display is ready and enabled with every service cached healthy, a
\* tracked service is unhealthy at its backend and the re-check timer has elapsed,
\* then, the loop ticking on through the quiet part of the hour, the cached health
\* of that service becomes false, unless the service recovers or the display is
\* disabled first; and a tick that finds a service cached unhealthy is never a blank
\* tick, whatever the minute.
C19_UnhealthyEndsBlank ==
  /\ \A i \in Varying :
       (/\ oled_is_ready /\ displayEnabled /\ AllHealthy(services)
        /\ UnhealthyAtBackend(i)
        /\ Elapsed(services_check_timestamp, services_check_interval))
         ~> (~services[i] \/ ~UnhealthyAtBackend(i) \/ ~displayEnabled)
  /\ []((Drawing /\ ~oledOut.healthy) => oledOut.mode = "paging")

====
